---- MODULE Spec2Model ----
(***************************************************************************)
(* Model of the milk delivery manager (src/app.py): the users, deliveries  *)
(* and productions tables, the request handlers of the Flask application   *)
(* and the per-request store connection.                                   *)
(*                                                                         *)
(* Strings are sequences of one-character strings, so that strip() and     *)
(* lower() are computed and not assumed.  A request is handled in two      *)
(* steps: the view function (with its decorators) runs, then the           *)
(* application-context teardown hook close_db runs.                        *)
(***************************************************************************)
EXTENDS Integers, Sequences, FiniteSets, TLC

VARIABLES
    users,              \* committed rows of table users
    deliveries,         \* committed rows of table deliveries
    productions,        \* committed rows of table productions
    users_id_seq,       \* last id generated for users
    deliveries_id_seq,  \* last id generated for deliveries
    productions_id_seq, \* last id generated for productions
    pc,                 \* "idle": no request in flight; "teardown": view returned
    request,            \* the request being handled (route, method, form/args)
    session,            \* flask.session of the request
    response,           \* what the view returned (or the exception it raised)
    g_db,               \* g.db: "unset", "open" or "closed"
    txn_users,          \* table users as seen inside the connection's transaction
    closes,             \* close() calls made on the connection of the latest request
    openConns,          \* store connections currently open
    pre                 \* history: the committed tables when the request arrived

vars == <<users, deliveries, productions, users_id_seq, deliveries_id_seq,
          productions_id_seq, pc, request, session, response, g_db, txn_users,
          closes, openConns, pre>>

----------------------------------------------------------------------------
(* Bounds of the model *)

\* users rows ever inserted (the seeded admin included)
MaxUsers == 3
\* deliveries and productions rows ever inserted, together
MaxRows == 2

----------------------------------------------------------------------------
(* Strings *)

IsSpace(c) == c = " "

LowerChar(c) ==
    CASE c = "A" -> "a"
      [] c = "B" -> "b"
      [] c = "N" -> "n"
      [] OTHER -> c

\* str.lower()
Lower(s) == [i \in 1..Len(s) |-> LowerChar(s[i])]

RECURSIVE LStrip(_)
LStrip(s) == IF s # <<>> /\ IsSpace(Head(s)) THEN LStrip(Tail(s)) ELSE s

RECURSIVE RStrip(_)
RStrip(s) ==
    IF s # <<>> /\ IsSpace(s[Len(s)]) THEN RStrip(SubSeq(s, 1, Len(s) - 1)) ELSE s

\* str.strip()
Strip(s) == RStrip(LStrip(s))

\* the code points of the characters that names and dates are made of
Ord(c) ==
    CASE c = " " -> 32
      [] c = "0" -> 48
      [] c = "1" -> 49
      [] c = "2" -> 50
      [] c = "A" -> 65
      [] c = "d" -> 100
      [] c = "i" -> 105
      [] c = "m" -> 109
      [] c = "n" -> 110
      [] c = "x" -> 120
      [] c = "y" -> 121
      [] OTHER -> 0

\* ORDER BY on a text column: s sorts strictly before t
RECURSIVE StrLess(_, _)
StrLess(s, t) ==
    IF t = <<>> THEN FALSE
    ELSE IF s = <<>> THEN TRUE
    ELSE IF Ord(Head(s)) # Ord(Head(t)) THEN Ord(Head(s)) < Ord(Head(t))
    ELSE StrLess(Tail(s), Tail(t))

----------------------------------------------------------------------------
(* Values *)

AdminName == <<"A", "d", "m", "i", "n">>
AdminEmail ==
    <<"a", "d", "m", "i", "n", "@", "m", "i", "l", "k", ".", "l", "o", "c", "a", "l">>
AdminPassword == <<"a", "d", "m", "i", "n", "1", "2", "3">>

\* form values a client may send
RawNames == {<<" ">>, <<"x">>, <<"y", " ">>}
RawEmails == {<<" ">>, <<"a">>, <<" ", "A">>, <<"b">>}
Passwords == {<<>>, <<"p">>, <<"q">>}
FormRoles == {"admin", "user", "guest"}

\* werkzeug.security: an opaque one-way hash with a verify operation
generate_password_hash(password) == [hash_of |-> password]
check_password_hash(pwhash, password) == pwhash = generate_password_hash(password)

\* the names bound in the module namespace of app.py
ModuleGlobals ==
    {"os", "psycopg2", "argparse", "date", "Flask", "render_template", "request",
     "redirect", "url_for", "session", "flash", "g", "generate_password_hash",
     "check_password_hash", "APP_SECRET", "DATABASE_URL", "app", "get_db",
     "close_db", "init_db", "login_required", "role_required", "home",
     "register", "login", "logout", "profile", "user_dashboard", "add_delivery",
     "delete_delivery", "admin_dashboard", "admin_production",
     "delete_production", "admin_deliveries"}

\* (variant: had the name been imported)
RealDictCursorImported == TRUE
\* whether evaluating the name RealDictCursor in login succeeds: app.py imports
\* psycopg2.extras but never binds RealDictCursor itself
RealDictCursorDefined == "RealDictCursor" \in ModuleGlobals

----------------------------------------------------------------------------
(* Sessions, responses, effects *)

Anonymous == [user_id |-> 0, role |-> "none", name |-> <<>>]

\* the session lines 125-126 bind for a stored user
SessionFor(u) == [user_id |-> u.id, role |-> u.role, name |-> <<>>]

\* the session a request carries: none, or a token signed with the application
\* secret that binds the id and role of a stored user
Sessions(us) == {Anonymous} \cup {SessionFor(u) : u \in us}

NoData == [none |-> TRUE]
NoRequest == [route |-> "none", method |-> "none", cookie |-> Anonymous, form |-> NoData]
NoResponse == [kind |-> "none", target |-> "none", flash |-> <<>>, data |-> NoData]

Redirect(endpoint, notices) ==
    [kind |-> "redirect", target |-> endpoint, flash |-> notices, data |-> NoData]
Render(template, notices, context) ==
    [kind |-> "render", target |-> template, flash |-> notices, data |-> context]
\* an exception no handler catches: Flask answers 500
Raise(exception) ==
    [kind |-> "error", target |-> exception, flash |-> <<>>, data |-> NoData]

\* the committed tables as one value
Db == [users |-> users, deliveries |-> deliveries, productions |-> productions,
       users_id_seq |-> users_id_seq, deliveries_id_seq |-> deliveries_id_seq,
       productions_id_seq |-> productions_id_seq]

\* what a view function leaves behind: the committed tables, the session, the
\* response, g.db, the users table inside the still open transaction and the
\* close() calls it made
Eff(db, s, resp, g, txnu, cl) ==
    [db |-> db, session |-> s, response |-> resp, g_db |-> g, txn_users |-> txnu,
     closes |-> cl]

----------------------------------------------------------------------------
(* Authentication helpers *)

\* login_required: session.get("user_id") is truthy
login_required(s) == s.user_id # 0

\* role_required(role): session.get("role") == role
role_required(s, role) == s.role = role

\* @login_required above @role_required(role): "login" and "denied" are the two
\* early returns, "pass" runs the view
\* (variant: the two decorators stacked the other way round)
Guard_role_first(s, role) ==
    IF ~role_required(s, role) THEN "denied"
    ELSE IF ~login_required(s) THEN "login"
    ELSE "pass"
Guard(s, role) ==
    IF ~login_required(s) THEN "login"
    ELSE IF ~role_required(s, role) THEN "denied"
    ELSE "pass"

\* the response of a guard that did not pass; the view body does not run
Denied(gate, db, s) ==
    Eff(db, s,
        IF gate = "login" THEN Redirect("login", <<>>)
        ELSE Redirect("login", <<"Not authorized.">>),
        "unset", db.users, 0)

----------------------------------------------------------------------------
(* Credential routes *)

\* .strip().lower() of the email field
\* (variant: .strip() without .lower())
NormalizeEmail_strip_only(raw) == Strip(raw)
NormalizeEmail(raw) == Lower(Strip(raw))

home(db, s, req) ==
    Eff(db, s,
        IF s.user_id # 0
        THEN Redirect(IF s.role = "admin" THEN "admin_dashboard" ELSE "user_dashboard", <<>>)
        ELSE Redirect("login", <<>>),
        "unset", db.users, 0)

\* psycopg2.errors.UniqueViolation on users.email
EmailTaken(us, email, except_id) ==
    \E u \in us : u.email = email /\ u.id # except_id

register(db, s, req) ==
    IF req.method = "POST" THEN
        LET name == Strip(req.form.name)
            email == NormalizeEmail(req.form.email)
            password == req.form.password
            role == req.form.role
        IN  IF name = <<>> \/ email = <<>> \/ password = <<>> \/ role \notin {"admin", "user"}
            THEN Eff(db, s, Redirect("register", <<"Please fill all fields correctly.">>),
                     "unset", db.users, 0)
            ELSE IF EmailTaken(db.users, email, 0)
            THEN \* UniqueViolation: rollback, fall through to the form
                 Eff(db, s, Render("register.html", <<"Email already registered.">>, NoData),
                     "open", db.users, 0)
            ELSE LET row == [id |-> db.users_id_seq + 1, name |-> name, email |-> email,
                             password_hash |-> generate_password_hash(password),
                             role |-> role]
                     db2 == [db EXCEPT !.users = @ \cup {row}, !.users_id_seq = @ + 1]
                 IN  Eff(db2, s, Redirect("login", <<"Account created. Please log in.">>),
                         "open", db2.users, 0)
    ELSE Eff(db, s, Render("register.html", <<>>, NoData), "unset", db.users, 0)

login(db, s, req) ==
    IF req.method = "POST" THEN
        LET email == req.form.email
            password == req.form.password
        IN  \* conn = get_db(); conn.cursor(cursor_factory=RealDictCursor)
            IF ~RealDictCursorDefined
            THEN Eff(db, s, Raise("NameError"), "open", db.users, 0)
            ELSE \* SELECT; cur.close(); conn.close()
                 LET found == {u \in db.users : u.email = email}
                 IN  IF found = {}
                     THEN Eff(db, s, Render("login.html", <<"Invalid email or password">>, NoData),
                              "closed", db.users, 1)
                     ELSE LET user == CHOOSE u \in found : TRUE
                          IN  IF "password" \notin DOMAIN user
                              THEN Eff(db, s, Raise("KeyError"), "closed", db.users, 1)
                              ELSE IF check_password_hash(user["password"], password)
                              THEN Eff(db,
                                       [s EXCEPT !.user_id = user.id, !.role = user.role],
                                       Redirect("home", <<"Login successful!">>),
                                       "closed", db.users, 1)
                              ELSE Eff(db, s,
                                       Render("login.html", <<"Invalid email or password">>, NoData),
                                       "closed", db.users, 1)
    ELSE Eff(db, s, Render("login.html", <<>>, NoData), "unset", db.users, 0)

logout(db, s, req) ==
    Eff(db, Anonymous, Redirect("login", <<"Logged out.">>), "unset", db.users, 0)

\* UPDATE users SET name, email WHERE id
UpdateNameEmail(us, uid, name, email) ==
    {IF u.id = uid THEN [u EXCEPT !.name = name, !.email = email] ELSE u : u \in us}

\* UPDATE users SET password_hash WHERE id
UpdatePasswordHash(us, uid, pwhash) ==
    {IF u.id = uid THEN [u EXCEPT !.password_hash = pwhash] ELSE u : u \in us}

profile(db, s, req) ==
    IF ~login_required(s) THEN Eff(db, s, Redirect("login", <<>>), "unset", db.users, 0)
    ELSE
        LET found == {u \in db.users : u.id = s.user_id}
            user == IF found = {} THEN NoData ELSE CHOOSE u \in found : TRUE
            shown == [user |-> user]
        IN  IF req.method = "POST" THEN
                LET name == Strip(req.form.name)
                    email == NormalizeEmail(req.form.email)
                    new_password == req.form.new_password
                    confirm == req.form.confirm_password
                IN  IF name = <<>> \/ email = <<>>
                    THEN Eff(db, s, Redirect("profile", <<"Name and email are required.">>),
                             "open", db.users, 0)
                    ELSE IF found # {} /\ EmailTaken(db.users, email, s.user_id)
                    THEN \* UniqueViolation: rollback
                         Eff(db, s, Render("profile.html", <<"Email already exists.">>, shown),
                             "open", db.users, 0)
                    ELSE LET t1 == UpdateNameEmail(db.users, s.user_id, name, email)
                         IN  IF new_password # <<>> /\ new_password # confirm
                             THEN \* return inside the transaction: nothing committed
                                  Eff(db, s, Redirect("profile", <<"Passwords do not match.">>),
                                      "open", t1, 0)
                             ELSE LET t2 == IF new_password # <<>>
                                            THEN UpdatePasswordHash(t1, s.user_id,
                                                     generate_password_hash(new_password))
                                            ELSE t1
                                  IN  Eff([db EXCEPT !.users = t2], [s EXCEPT !.name = name],
                                          Render("profile.html", <<"Profile updated.">>, shown),
                                          "open", t2, 0)
            ELSE Eff(db, s, Render("profile.html", <<>>, shown), "open", db.users, 0)

----------------------------------------------------------------------------
(* Numbers *)

Digits == {"0", "1", "2"}

DigitVal(c) == CASE c = "0" -> 0 [] c = "1" -> 1 [] c = "2" -> 2 [] OTHER -> 0

RECURSIVE DecVal(_)
DecVal(ds) == IF ds = <<>> THEN 0 ELSE 10 * DecVal(SubSeq(ds, 1, Len(ds) - 1)) + DigitVal(ds[Len(ds)])

\* a Python float: a number, or NaN
Float(nan, v) == [nan |-> nan, v |-> v]

\* float(text) on signed decimal integers and "nan": the value, or ValueError
PyFloat(raw) ==
    LET t == Strip(raw)
        signed == t # <<>> /\ Head(t) \in {"-", "+"}
        body == IF signed THEN Tail(t) ELSE t
    IN  IF Lower(body) = <<"n", "a", "n">>
        THEN [ok |-> TRUE, value |-> Float(TRUE, 0)]
        ELSE IF body # <<>> /\ \A i \in 1..Len(body) : body[i] \in Digits
        THEN [ok |-> TRUE,
              value |-> Float(FALSE, IF Head(t) = "-" THEN 0 - DecVal(body) ELSE DecVal(body))]
        ELSE [ok |-> FALSE, value |-> Float(FALSE, 0)]

\* x < 0 on floats: every comparison with NaN is False
FloatLt0(x) == ~x.nan /\ x.v < 0

\* try: liters = float(liters); if liters < 0: raise ValueError()  except: ...
LitersAccepted(raw) == PyFloat(raw).ok /\ ~FloatLt0(PyFloat(raw).value)

\* SUM over floats
RECURSIVE FloatSum(_)
FloatSum(xs) ==
    IF xs = <<>> THEN Float(FALSE, 0)
    ELSE LET rest == FloatSum(Tail(xs))
         IN  Float(Head(xs).nan \/ rest.nan, IF Head(xs).nan \/ rest.nan THEN 0 ELSE Head(xs).v + rest.v)

\* form values a client may send
Dates == {<<"1">>, <<"2">>}
RawDateArgs == {<<>>, <<" ">>, <<"1">>, <<" ", "2">>}
RawLiters == {<<"x">>, <<"-", "1">>, <<"0">>, <<" ", "2">>, <<"n", "a", "n">>}

----------------------------------------------------------------------------
(* Query results *)

\* the sequences that list every element of S once
RECURSIVE Perms(_)
Perms(S) ==
    IF S = {} THEN {<<>>}
    ELSE UNION {{<<x>> \o p : p \in Perms(S \ {x})} : x \in S}

\* r1 sorts strictly before r2 under an ORDER BY clause
Before(order, r1, r2) ==
    CASE order = "date DESC" -> StrLess(r2.date, r1.date)
      [] order = "name" -> StrLess(r1.name, r2.name)
      [] order = "date DESC, name ASC" ->
            StrLess(r2.date, r1.date) \/ (r1.date = r2.date /\ StrLess(r1.name, r2.name))

\* ORDER BY: the listings of S in which no row comes after one it sorts before
Ordered(S, order) ==
    {p \in Perms(S) : \A i, j \in 1..Len(p) : i < j => ~Before(order, p[j], p[i])}

\* LIMIT n
Limit(p, n) == IF Len(p) <= n THEN p ELSE SubSeq(p, 1, n)

RecentLimit == 200

----------------------------------------------------------------------------
(* Delivery routes *)

\* listing is the result of the SELECT; today's date in the context is left out
user_dashboard(db, s, req, listing) ==
    LET gate == Guard(s, "user") IN
    IF gate # "pass" THEN Denied(gate, db, s)
    ELSE Eff(db, s, Render("user_dashboard.html", <<>>, [deliveries |-> listing]),
             "open", db.users, 0)

\* SELECT * FROM deliveries WHERE user_id = %s ORDER BY date DESC
UserDeliveries(db, uid) == Ordered({r \in db.deliveries : r.user_id = uid}, "date DESC")

\* INSERT ... ON CONFLICT(user_id, date) DO UPDATE SET liters=EXCLUDED.liters
\* (variant: a plain INSERT on a table without the unique key)
UpsertDelivery_adds_row(db, uid, d, liters) ==
    [db EXCEPT !.deliveries = @ \cup {[id |-> db.deliveries_id_seq + 1, user_id |-> uid,
                                        date |-> d, liters |-> liters]},
               !.deliveries_id_seq = @ + 1]
UpsertDelivery(db, uid, d, liters) ==
    IF \E r \in db.deliveries : r.user_id = uid /\ r.date = d
    THEN [db EXCEPT !.deliveries =
              {IF r.user_id = uid /\ r.date = d THEN [r EXCEPT !.liters = liters] ELSE r : r \in @}]
    ELSE [db EXCEPT !.deliveries = @ \cup {[id |-> db.deliveries_id_seq + 1, user_id |-> uid,
                                             date |-> d, liters |-> liters]},
                    !.deliveries_id_seq = @ + 1]

add_delivery(db, s, req) ==
    LET gate == Guard(s, "user") IN
    IF gate # "pass" THEN Denied(gate, db, s)
    ELSE LET d == req.form.date
             liters == req.form.liters
         IN  IF ~LitersAccepted(liters)
             THEN Eff(db, s, Redirect("user_dashboard", <<"Enter valid liters.">>),
                      "unset", db.users, 0)
             ELSE Eff(UpsertDelivery(db, s.user_id, d, PyFloat(liters).value), s,
                      Redirect("user_dashboard", <<"Delivery updated.">>),
                      "open", db.users, 0)

\* DELETE FROM deliveries WHERE id = %s AND user_id = %s
\* (variant: WHERE id = %s alone)
DeleteDelivery_any_owner(db, delivery_id, uid) ==
    [db EXCEPT !.deliveries = {r \in @ : r.id # delivery_id}]
DeleteDelivery(db, delivery_id, uid) ==
    [db EXCEPT !.deliveries = {r \in @ : ~(r.id = delivery_id /\ r.user_id = uid)}]

delete_delivery(db, s, req) ==
    LET gate == Guard(s, "user") IN
    IF gate # "pass" THEN Denied(gate, db, s)
    ELSE Eff(DeleteDelivery(db, req.form.delivery_id, s.user_id), s,
             Redirect("user_dashboard", <<"Deleted.">>), "open", db.users, 0)

----------------------------------------------------------------------------
(* Admin routes *)

\* a set of floats taken row by row, for SUM
RECURSIVE RowValues(_)
RowValues(rows) ==
    IF rows = {} THEN <<>>
    ELSE LET r == CHOOSE x \in rows : TRUE
         IN  <<r.total_liters>> \o RowValues(rows \ {r})

admin_dashboard(db, s, req) ==
    LET gate == Guard(s, "admin") IN
    IF gate # "pass" THEN Denied(gate, db, s)
    ELSE Eff(db, s,
             Render("admin_dashboard.html", <<>>,
                    [total_users |-> Cardinality(db.users),
                     total_production |-> FloatSum(RowValues(db.productions)),
                     total_deliveries |-> Cardinality(db.deliveries)]),
             "open", db.users, 0)

\* INSERT ... ON CONFLICT(date) DO UPDATE SET total_liters=EXCLUDED.total_liters
UpsertProduction(db, d, total) ==
    IF \E r \in db.productions : r.date = d
    THEN [db EXCEPT !.productions =
              {IF r.date = d THEN [r EXCEPT !.total_liters = total] ELSE r : r \in @}]
    ELSE [db EXCEPT !.productions = @ \cup {[id |-> db.productions_id_seq + 1, date |-> d,
                                              total_liters |-> total]},
                    !.productions_id_seq = @ + 1]

\* SELECT * FROM productions ORDER BY date DESC
AllProductions(db) == Ordered(db.productions, "date DESC")

admin_production(db, s, req, listing) ==
    LET gate == Guard(s, "admin") IN
    IF gate # "pass" THEN Denied(gate, db, s)
    ELSE IF req.method = "POST" THEN
             LET d == req.form.date
                 total == req.form.total_liters
             IN  IF ~LitersAccepted(total)
                 THEN Eff(db, s, Redirect("admin_production", <<"Enter valid liters.">>),
                          "open", db.users, 0)
                 ELSE Eff(UpsertProduction(db, d, PyFloat(total).value), s,
                          Redirect("admin_production", <<"Production updated.">>),
                          "open", db.users, 0)
         ELSE Eff(db, s, Render("admin_production.html", <<>>, [productions |-> listing]),
                  "open", db.users, 0)

\* DELETE FROM productions WHERE id = %s
DeleteProduction(db, production_id) ==
    [db EXCEPT !.productions = {r \in @ : r.id # production_id}]

delete_production(db, s, req) ==
    LET gate == Guard(s, "admin") IN
    IF gate # "pass" THEN Denied(gate, db, s)
    ELSE Eff(DeleteProduction(db, req.form.production_id), s,
             Redirect("admin_production", <<"Deleted.">>), "open", db.users, 0)

\* COALESCE(d.liters, 0) of users u LEFT JOIN deliveries d
\*   ON u.id = d.user_id AND d.date = %s  WHERE u.role = 'user'
\* (variant: JOIN in place of LEFT JOIN)
BreakdownRows_inner_join(db, picked_date) ==
    {[uid |-> u.id, name |-> u.name, liters |-> d.liters] :
        <<u, d>> \in {p \in db.users \X db.deliveries :
                        p[1].role = "user" /\ p[1].id = p[2].user_id /\ p[2].date = picked_date}}
BreakdownRows(db, picked_date) ==
    LET matches(u) == {d \in db.deliveries : u.id = d.user_id /\ d.date = picked_date}
        joined == UNION {IF matches(u) = {}
                         THEN {[uid |-> u.id, name |-> u.name, role |-> u.role,
                                liters |-> Float(FALSE, 0)]}
                         ELSE {[uid |-> u.id, name |-> u.name, role |-> u.role,
                                liters |-> d.liters] : d \in matches(u)}
                         : u \in db.users}
    IN  {[uid |-> j.uid, name |-> j.name, liters |-> j.liters] : j \in {x \in joined : x.role = "user"}}

\* the select list: u.name, liters
NameLiters(p) == [i \in 1..Len(p) |-> [name |-> p[i].name, liters |-> p[i].liters]]

\* ... ORDER BY u.name
Breakdowns(db, picked_date) ==
    IF picked_date # <<>>
    THEN {NameLiters(p) : p \in Ordered(BreakdownRows(db, picked_date), "name")}
    ELSE {<<>>}

\* SELECT d.date, u.name, d.liters FROM deliveries d JOIN users u ON u.id = d.user_id
\*   ORDER BY d.date DESC, u.name ASC LIMIT 200
RecentDeliveries(db) ==
    LET joined == {[id |-> p[1].id, date |-> p[1].date, name |-> p[2].name, liters |-> p[1].liters] :
                     p \in {q \in db.deliveries \X db.users : q[2].id = q[1].user_id}}
    IN  {Limit([i \in 1..Len(p) |-> [date |-> p[i].date, name |-> p[i].name,
                                     liters |-> p[i].liters]], RecentLimit) :
            p \in Ordered(joined, "date DESC, name ASC")}

admin_deliveries(db, s, req, breakdown, all_deliveries) ==
    LET gate == Guard(s, "admin") IN
    IF gate # "pass" THEN Denied(gate, db, s)
    ELSE Eff(db, s,
             Render("admin_deliveries.html", <<>>,
                    [breakdown |-> breakdown, picked_date |-> Strip(req.form.date),
                     all_deliveries |-> all_deliveries]),
             "open", db.users, 0)

----------------------------------------------------------------------------
(* Request lifecycle *)

\* connection.close(): what the transaction had not committed is discarded
\* (variant: a commit before the close)
ConnectionClose_commits(committed, in_txn) == in_txn
ConnectionClose(committed, in_txn) == committed

\* teardown_appcontext: db = g.pop("db", None); if db is not None: db.close()
close_db(g) == g # "unset"

\* init_db on an empty store: the schema and the default admin
SeededDb ==
    [users |-> {[id |-> 1, name |-> AdminName, email |-> AdminEmail,
                 password_hash |-> generate_password_hash(AdminPassword),
                 role |-> "admin"]},
     deliveries |-> {}, productions |-> {},
     users_id_seq |-> 1, deliveries_id_seq |-> 0, productions_id_seq |-> 0]

\* the store holds db and no request is in flight
InitWith(db) ==
    /\ users = db.users
    /\ deliveries = db.deliveries
    /\ productions = db.productions
    /\ users_id_seq = db.users_id_seq
    /\ deliveries_id_seq = db.deliveries_id_seq
    /\ productions_id_seq = db.productions_id_seq
    /\ pc = "idle"
    /\ request = NoRequest
    /\ session = Anonymous
    /\ response = NoResponse
    /\ g_db = "unset"
    /\ txn_users = db.users
    /\ closes = 0
    /\ openConns = 0
    /\ pre = db

Init == InitWith(SeededDb)

\* the view function of req (decorators included) runs to its return or raise
Handle(req, eff) ==
    /\ eff.db.users_id_seq <= MaxUsers
    /\ eff.db.deliveries_id_seq + eff.db.productions_id_seq <= MaxRows
    /\ pc' = "teardown"
    /\ request' = req
    /\ session' = eff.session
    /\ response' = eff.response
    /\ users' = eff.db.users
    /\ deliveries' = eff.db.deliveries
    /\ productions' = eff.db.productions
    /\ users_id_seq' = eff.db.users_id_seq
    /\ deliveries_id_seq' = eff.db.deliveries_id_seq
    /\ productions_id_seq' = eff.db.productions_id_seq
    /\ g_db' = eff.g_db
    /\ txn_users' = eff.txn_users
    /\ closes' = eff.closes
    /\ openConns' = IF eff.g_db = "open" THEN openConns + 1 ELSE openConns
    /\ pre' = Db

Req(route, method, cookie, form) ==
    [route |-> route, method |-> method, cookie |-> cookie, form |-> form]

\* the request ends: the application context is popped
Teardown ==
    /\ pc = "teardown"
    /\ LET closing == close_db(g_db)
           us == IF closing THEN ConnectionClose(users, txn_users) ELSE users
       IN  /\ users' = us
           /\ txn_users' = us
           /\ openConns' = IF closing /\ g_db = "open" THEN openConns - 1 ELSE openConns
           /\ pre' = [Db EXCEPT !.users = us]
           /\ closes' = IF closing THEN closes + 1 ELSE closes
    /\ pc' = "idle"
    /\ request' = NoRequest
    /\ session' = Anonymous
    /\ response' = NoResponse
    /\ g_db' = "unset"
    /\ UNCHANGED <<deliveries, productions, users_id_seq, deliveries_id_seq,
                   productions_id_seq>>

Home ==
    /\ pc = "idle"
    /\ \E s \in Sessions(users) :
           LET req == Req("home", "GET", s, NoData) IN Handle(req, home(Db, s, req))

RegisterGet ==
    /\ pc = "idle"
    /\ \E s \in Sessions(users) :
           LET req == Req("register", "GET", s, NoData) IN Handle(req, register(Db, s, req))

RegisterPost ==
    /\ pc = "idle"
    /\ \E s \in Sessions(users), name \in RawNames, email \in RawEmails,
          password \in Passwords, role \in FormRoles :
           LET req == Req("register", "POST", s,
                          [name |-> name, email |-> email, password |-> password,
                           role |-> role])
           IN  Handle(req, register(Db, s, req))

LoginGet ==
    /\ pc = "idle"
    /\ \E s \in Sessions(users) :
           LET req == Req("login", "GET", s, NoData) IN Handle(req, login(Db, s, req))

LoginPost ==
    /\ pc = "idle"
    /\ \E s \in Sessions(users), email \in RawEmails \cup {AdminEmail},
          password \in Passwords \cup {AdminPassword} :
           LET req == Req("login", "POST", s, [email |-> email, password |-> password])
           IN  Handle(req, login(Db, s, req))

Logout ==
    /\ pc = "idle"
    /\ \E s \in Sessions(users) :
           LET req == Req("logout", "GET", s, NoData) IN Handle(req, logout(Db, s, req))

ProfileGet ==
    /\ pc = "idle"
    /\ \E s \in Sessions(users) :
           LET req == Req("profile", "GET", s, NoData) IN Handle(req, profile(Db, s, req))

ProfilePost ==
    /\ pc = "idle"
    /\ \E s \in Sessions(users), name \in RawNames, email \in RawEmails,
          new_password \in Passwords, confirm \in Passwords :
           LET req == Req("profile", "POST", s,
                          [name |-> name, email |-> email, new_password |-> new_password,
                           confirm_password |-> confirm])
           IN  Handle(req, profile(Db, s, req))

NextAccounts ==
    \/ Home
    \/ RegisterGet
    \/ RegisterPost
    \/ LoginGet
    \/ LoginPost
    \/ Logout
    \/ ProfileGet
    \/ ProfilePost
    \/ Teardown

SpecAccounts == Init /\ [][NextAccounts]_vars

----------------------------------------------------------------------------
(* The ledger routes, on a store that already holds registered accounts *)

RegistrationForm(name, email, role) ==
    Req("register", "POST", Anonymous,
        [name |-> name, email |-> email, password |-> <<"p">>, role |-> role])

\* the committed tables after the registrations in forms, in order
RECURSIVE RegisterAll(_, _)
RegisterAll(db, forms) ==
    IF forms = <<>> THEN db
    ELSE RegisterAll(register(db, Anonymous, Head(forms)).db, Tail(forms))

\* the stores two registrations lead to: two users beside the admin, named alike,
\* or named so that ORDER BY name is not the order of their ids
LedgerStores ==
    {RegisterAll(SeededDb, <<f1, f2>>) :
        f1 \in {RegistrationForm(<<"x">>, <<"a">>, "user"),
                RegistrationForm(<<"y">>, <<"a">>, "user")},
        f2 \in {RegistrationForm(<<"x">>, <<"b">>, "user")}}

InitLedger == \E db \in LedgerStores : InitWith(db)

DeliveryIds == 1..MaxRows
ProductionIds == 1..MaxRows

UserDashboard ==
    /\ pc = "idle"
    /\ \E s \in Sessions(users) : \E listing \in UserDeliveries(Db, s.user_id) :
           LET req == Req("user_dashboard", "GET", s, NoData)
           IN  Handle(req, user_dashboard(Db, s, req, listing))

AddDelivery ==
    /\ pc = "idle"
    /\ \E s \in Sessions(users), d \in Dates, liters \in RawLiters :
           LET req == Req("add_delivery", "POST", s, [date |-> d, liters |-> liters])
           IN  Handle(req, add_delivery(Db, s, req))

DeleteDeliveryPost ==
    /\ pc = "idle"
    /\ \E s \in Sessions(users), delivery_id \in DeliveryIds :
           LET req == Req("delete_delivery", "POST", s, [delivery_id |-> delivery_id])
           IN  Handle(req, delete_delivery(Db, s, req))

AdminDashboard ==
    /\ pc = "idle"
    /\ \E s \in Sessions(users) :
           LET req == Req("admin_dashboard", "GET", s, NoData)
           IN  Handle(req, admin_dashboard(Db, s, req))

AdminProductionGet ==
    /\ pc = "idle"
    /\ \E s \in Sessions(users) : \E listing \in AllProductions(Db) :
           LET req == Req("admin_production", "GET", s, NoData)
           IN  Handle(req, admin_production(Db, s, req, listing))

AdminProductionPost ==
    /\ pc = "idle"
    /\ \E s \in Sessions(users), d \in Dates, total \in RawLiters :
           LET req == Req("admin_production", "POST", s, [date |-> d, total_liters |-> total])
           IN  Handle(req, admin_production(Db, s, req, <<>>))

DeleteProductionPost ==
    /\ pc = "idle"
    /\ \E s \in Sessions(users), production_id \in ProductionIds :
           LET req == Req("delete_production", "POST", s, [production_id |-> production_id])
           IN  Handle(req, delete_production(Db, s, req))

AdminDeliveries ==
    /\ pc = "idle"
    /\ \E s \in Sessions(users), d \in RawDateArgs :
           \E breakdown \in Breakdowns(Db, Strip(d)), all_deliveries \in RecentDeliveries(Db) :
               LET req == Req("admin_deliveries", "GET", s, [date |-> d])
               IN  Handle(req, admin_deliveries(Db, s, req, breakdown, all_deliveries))

NextLedger ==
    \/ UserDashboard
    \/ AddDelivery
    \/ DeleteDeliveryPost
    \/ AdminDashboard
    \/ AdminProductionGet
    \/ AdminProductionPost
    \/ DeleteProductionPost
    \/ AdminDeliveries
    \/ Teardown

SpecLedger == InitLedger /\ [][NextLedger]_vars

----------------------------------------------------------------------------
(* Properties *)

InFlight(route) == pc = "teardown" /\ request.route = route

\* the committed tables are those the request found
StoreUnchanged ==
    /\ users = pre.users
    /\ deliveries = pre.deliveries
    /\ productions = pre.productions

\* the role section 6 of the specification requires on each role-gated route
RequiredRole(route) ==
    CASE route \in {"user_dashboard", "add_delivery", "delete_delivery"} -> "user"
      [] route \in {"admin_dashboard", "admin_production", "delete_production",
                    "admin_deliveries"} -> "admin"
      [] OTHER -> "none"

\* C1: on every role-gated route, a session without user_id is redirected to
\* login with no notice, a session whose role is not the route's role is
\* redirected to login with "Not authorized."; in both cases no connection is
\* acquired, no row reaches the response and the store is unchanged.
GateDenies ==
    (pc = "teardown" /\ RequiredRole(request.route) # "none") =>
        /\ request.cookie.user_id = 0 =>
               /\ response = Redirect("login", <<>>)
               /\ g_db = "unset"
               /\ StoreUnchanged
        /\ (request.cookie.user_id # 0 /\ request.cookie.role # RequiredRole(request.route)) =>
               /\ response = Redirect("login", <<"Not authorized.">>)
               /\ g_db = "unset"
               /\ StoreUnchanged

\* a "user" session asks for the admin delivery report while deliveries exist
GateDeniesWitness ==
    /\ InFlight("admin_deliveries")
    /\ request.cookie.role = "user"
    /\ request.form.date = <<"1">>
    /\ deliveries # {}
    /\ response.flash = <<"Not authorized.">>

\* the stored users a login form identifies and whose password it verifies
Verified(form, us) ==
    {u \in us : u.email = Lower(Strip(form.email))
                /\ check_password_hash(u.password_hash, form.password)}

\* C2: a POST /login whose normalized email is a stored user's and whose
\* password verifies establishes that user's id and role in the session and
\* redirects to home; a session is established only by such a login.
LoginSucceeds ==
    (InFlight("login") /\ request.method = "POST") =>
        /\ \A u \in Verified(request.form, pre.users) :
               /\ session.user_id = u.id
               /\ session.role = u.role
               /\ response.kind = "redirect"
               /\ response.target = "home"
        /\ Verified(request.form, pre.users) = {} => session = request.cookie

\* C3: a POST /login with a stored email and a wrong password and one with an
\* email no user has both get the generic invalid-credentials failure: the
\* login form with that one notice, and the session as it was.
LoginFailureGeneric ==
    (InFlight("login") /\ request.method = "POST"
        /\ Verified(request.form, pre.users) = {}) =>
        /\ response = Render("login.html", <<"Invalid email or password">>, NoData)
        /\ session = request.cookie

\* the parsed liters of a delivery or production form is a number >= 0
ValidLiters(raw) == PyFloat(raw).ok /\ ~PyFloat(raw).value.nan /\ PyFloat(raw).value.v >= 0

\* C4: deliveries holds at most one row per (user_id, date); a valid record
\* request leaves exactly one row for its (user, date), holding the liters just
\* sent (overwritten, not summed), and every row of another user or date as
\* it was.
UpsertLastWriteWins ==
    /\ \A r1, r2 \in deliveries :
           (r1.user_id = r2.user_id /\ r1.date = r2.date) => r1 = r2
    /\ (InFlight("add_delivery") /\ request.cookie.role = "user"
            /\ ValidLiters(request.form.liters)) =>
           LET mine(r) == r.user_id = request.cookie.user_id /\ r.date = request.form.date
           IN  /\ Cardinality({r \in deliveries : mine(r)}) = 1
               /\ \A r \in deliveries :
                      mine(r) => r.liters = PyFloat(request.form.liters).value
               /\ {r \in deliveries : ~mine(r)} = {r \in pre.deliveries : ~mine(r)}

\* a user overwrites 0 liters with 2 while another user's row stands by
UpsertWitness ==
    /\ InFlight("add_delivery")
    /\ \E r \in pre.deliveries :
           /\ r.user_id = request.cookie.user_id
           /\ r.date = request.form.date
           /\ r.liters = Float(FALSE, 0)
    /\ \E r \in deliveries :
           r.user_id = request.cookie.user_id /\ r.liters = Float(FALSE, 2)
    /\ \E r \in deliveries : r.user_id # request.cookie.user_id
    /\ Cardinality(deliveries) = 2

Ids(rows) == {r.id : r \in rows}

\* C5: a "user" session deleting a delivery id that does not exist or is
\* another user's removes nothing and still answers "Deleted." with a redirect;
\* a row leaves the table only through a delete request of its owner for its id.
DeleteOwnOnly ==
    /\ (InFlight("delete_delivery") /\ request.cookie.role = "user"
            /\ ~\E r \in pre.deliveries :
                   r.id = request.form.delivery_id /\ r.user_id = request.cookie.user_id) =>
           /\ deliveries = pre.deliveries
           /\ response = Redirect("user_dashboard", <<"Deleted.">>)
    /\ pc = "teardown" =>
           \A r \in pre.deliveries :
               r.id \notin Ids(deliveries) =>
                   /\ request.route = "delete_delivery"
                   /\ request.cookie.user_id = r.user_id
                   /\ request.form.delivery_id = r.id

\* a user asks to delete a row that another user owns
DeleteOwnOnlyWitness ==
    /\ InFlight("delete_delivery")
    /\ request.cookie.role = "user"
    /\ \E r \in deliveries :
           r.id = request.form.delivery_id /\ r.user_id # request.cookie.user_id
    /\ response.flash = <<"Deleted.">>

\* C6: a registration with every field filled and a known role, whose email
\* after strip and lowercase is a stored user's, gets the duplicate-email
\* notice and the form again, no error, and leaves users as it was; no two
\* users rows share an email.
DuplicateEmailRejected ==
    /\ \A u1, u2 \in users : u1.email = u2.email => u1 = u2
    /\ (InFlight("register") /\ request.method = "POST"
            /\ Strip(request.form.name) # <<>> /\ request.form.password # <<>>
            /\ request.form.role \in {"admin", "user"}
            /\ \E u \in pre.users : u.email = Lower(Strip(request.form.email))) =>
           /\ response = Render("register.html", <<"Email already registered.">>, NoData)
           /\ users = pre.users
           /\ users_id_seq = pre.users_id_seq

\* " A" is registered while a user holds "a"
DuplicateEmailWitness ==
    /\ InFlight("register")
    /\ request.method = "POST"
    /\ request.form.email = <<" ", "A">>
    /\ \E u \in pre.users : u.email = <<"a">>
    /\ response.flash = <<"Email already registered.">>

\* a profile form that must fail as a whole: a new password with a different
\* confirmation, or an email another user holds
ProfileFails(req, us) ==
    \/ (req.form.new_password # <<>> /\ req.form.confirm_password # req.form.new_password)
    \/ \E u \in us : u.id # req.cookie.user_id /\ u.email = Lower(Strip(req.form.email))

\* the users table after the whole profile update of req
ProfileApplied(req, us) ==
    {IF u.id = req.cookie.user_id
     THEN [u EXCEPT !.name = Strip(req.form.name),
                    !.email = Lower(Strip(req.form.email)),
                    !.password_hash = IF req.form.new_password # <<>>
                                      THEN generate_password_hash(req.form.new_password)
                                      ELSE @]
     ELSE u : u \in us}

ProfileOutcome(req, before, after) ==
    /\ ProfileFails(req, before) => after = before
    /\ after \in {before, ProfileApplied(req, before)}
    /\ (~ProfileFails(req, before) /\ Strip(req.form.name) # <<>>
            /\ Strip(req.form.email) # <<>>) => after = ProfileApplied(req, before)

\* C7: a profile update is all or nothing: with a password confirmation
\* mismatch or an email collision the stored users are, when the view returns
\* and after the request has ended, what they were before; otherwise name,
\* email and (if supplied) password_hash change together.
ProfileAllOrNothing ==
    [][/\ (pc' = "teardown" /\ request'.route = "profile" /\ request'.method = "POST") =>
             ProfileOutcome(request', users, users')
       /\ (pc = "teardown" /\ request.route = "profile") => users' = users]_vars

\* the view returned on a confirmation mismatch with its UPDATE still pending
ProfileWitness ==
    /\ InFlight("profile")
    /\ request.method = "POST"
    /\ request.form.new_password = <<"q">>
    /\ request.form.confirm_password = <<"p">>
    /\ txn_users # users
    /\ users = pre.users

UserRole(us) == {u \in us : u.role = "user"}

\* the liters of user u on date d, 0 without a row
LitersOn(rows, u, d) ==
    IF \E r \in rows : r.user_id = u.id /\ r.date = d
    THEN (CHOOSE r \in rows : r.user_id = u.id /\ r.date = d).liters
    ELSE Float(FALSE, 0)

\* C8: for a supplied date the admin breakdown has exactly one row per
\* "user"-role user and none for admins, each with that user's liters of the
\* date or 0, in ascending order of name; without a date it is empty.
BreakdownPerUser ==
    (InFlight("admin_deliveries") /\ request.cookie.role = "admin") =>
        LET d == Strip(request.form.date)
            b == response.data.breakdown
        IN  IF d = <<>> THEN b = <<>>
            ELSE /\ \E p \in Perms(UserRole(users)) :
                        b = [i \in 1..Len(p) |->
                                [name |-> p[i].name, liters |-> LitersOn(deliveries, p[i], d)]]
                 /\ \A i, j \in 1..Len(b) : i < j => ~StrLess(b[j].name, b[i].name)

\* the user registered first is named "y" and delivered 2 liters, the one
\* registered second is named "x" and delivered nothing that day
BreakdownWitness ==
    /\ InFlight("admin_deliveries")
    /\ request.form.date = <<" ", "2">>
    /\ response.kind = "render"
    /\ response.data.breakdown =
           <<[name |-> <<"x">>, liters |-> Float(FALSE, 0)],
             [name |-> <<"y">>, liters |-> Float(FALSE, 2)]>>

\* C9: a delivery or production record request whose liters is not a number
\* >= 0 gets the validation notice and changes neither table; every stored
\* liters and total_liters is a number >= 0.
LitersValidated ==
    /\ (pc = "teardown"
            /\ \/ (request.route = "add_delivery" /\ request.cookie.role = "user"
                      /\ ~ValidLiters(request.form.liters))
               \/ (request.route = "admin_production" /\ request.method = "POST"
                      /\ request.cookie.role = "admin"
                      /\ ~ValidLiters(request.form.total_liters))) =>
           /\ response.flash = <<"Enter valid liters.">>
           /\ StoreUnchanged
    /\ \A r \in deliveries : ~r.liters.nan /\ r.liters.v >= 0
    /\ \A r \in productions : ~r.total_liters.nan /\ r.total_liters.v >= 0

\* C10: a request holds at most one connection, no view closes it itself, and
\* once the request has ended the connection was closed exactly once and none
\* is left open, whatever way the view returned or raised.
ConnectionClosedOnce ==
    /\ openConns <= 1
    /\ pc = "teardown" =>
           /\ closes = 0
           /\ g_db \in {"unset", "open"}
           /\ openConns = IF g_db = "open" THEN 1 ELSE 0
    /\ pc = "idle" =>
           /\ openConns = 0
           /\ g_db = "unset"
           /\ closes <= 1

\* login raised with the connection it acquired still open
ConnectionWitness ==
    /\ InFlight("login")
    /\ response.kind = "error"
    /\ g_db = "open"
    /\ openConns = 1

====
